---------------------------- MODULE Spec2Model ----------------------------
(***************************************************************************)
(* A model of src/lib.rs: `parse`, the parser of the text dump that        *)
(* `xperf -i trace.etl` prints, and `parse_hex`.                           *)
(*                                                                         *)
(* Text is text: a line is a TLA+ string, split at commas and trimmed as   *)
(* the code does it, and numbers are decoded digit by digit.  The input is *)
(* read one line per step; the end of the input can come after any line.   *)
(***************************************************************************)
EXTENDS Integers, Sequences, FiniteSets, TLC

(***************************************************************************)
(* Bounds of the model.                                                    *)
(***************************************************************************)
\* The number of recognised rows (event rows and Stack rows) of the body
\* that are read before the input must end.
MaxRows == 4
\* The length of the strings parse_hex is applied to in SpecHex.
MaxHexLen == 4

(***************************************************************************)
(* Strings.                                                                *)
(***************************************************************************)
Char(s, i) == SubSeq(s, i, i)

\* char::is_whitespace, for the characters a line can hold ("\n" ends a line
\* and is never part of one).
IsWhitespace(c) == c \in {" ", "\t", "\r", "\f"}

\* str::trim: what is left without the whitespace at both ends.
trim(s) ==
    LET kept == {i \in 1..Len(s) : ~IsWhitespace(Char(s, i))}
        first == CHOOSE i \in kept : \A j \in kept : i <= j
        last == CHOOSE i \in kept : \A j \in kept : j <= i
    IN  IF kept = {} THEN "" ELSE SubSeq(s, first, last)

\* str::split(","): the pieces between the commas; a string with n commas
\* gives n + 1 pieces, so the result is never empty.
split(s) ==
    LET commas == {i \in 1..Len(s) : Char(s, i) = ","}
        n == Cardinality(commas) + 1
        \* the position of the k-th comma
        comma(k) == CHOOSE c \in commas :
                        Cardinality({d \in commas : d < c}) = k - 1
        from(k) == IF k = 1 THEN 1 ELSE comma(k - 1) + 1
        to(k) == IF k = n THEN Len(s) ELSE comma(k) - 1
    IN  [k \in 1..n |-> SubSeq(s, from(k), to(k))]

\* .map(|x| x.trim()).collect()
RECURSIVE map_trim(_)
map_trim(pieces) ==
    IF pieces = <<>> THEN <<>>
    ELSE <<trim(Head(pieces))>> \o map_trim(Tail(pieces))

\* line.split(",").map(|x| x.trim()).collect()
Columns(text) == map_trim(split(text))

(***************************************************************************)
(* Numbers.  A call that can panic gives [ok, value, msg].                 *)
(***************************************************************************)
Ok(v) == [ok |-> TRUE, value |-> v, msg |-> ""]
Panic(m) == [ok |-> FALSE, value |-> 0, msg |-> m]

\* char::to_digit(radix), -1 for a character that is no digit of the radix.
to_digit(c, radix) ==
    LET d == CASE c = "0" -> 0 [] c = "1" -> 1 [] c = "2" -> 2 [] c = "3" -> 3
               [] c = "4" -> 4 [] c = "5" -> 5 [] c = "6" -> 6 [] c = "7" -> 7
               [] c = "8" -> 8 [] c = "9" -> 9
               [] c \in {"a", "A"} -> 10 [] c \in {"b", "B"} -> 11
               [] c \in {"c", "C"} -> 12 [] c \in {"d", "D"} -> 13
               [] c \in {"e", "E"} -> 14 [] c \in {"f", "F"} -> 15
               [] OTHER -> -1
    IN  IF d < radix THEN d ELSE -1

\* The digits of u64::MAX in the radix, most significant first.
U64MaxDigits(radix) ==
    IF radix = 16
    THEN [i \in 1..16 |-> 15]
    ELSE <<1, 8, 4, 4, 6, 7, 4, 4, 0, 7, 3, 7, 0, 9, 5, 5, 1, 6, 1, 5>>

RECURSIVE strip_zeros(_)
strip_zeros(ds) ==
    IF Len(ds) > 0 /\ ds[1] = 0 THEN strip_zeros(Tail(ds)) ELSE ds

\* ds > ms, for digit sequences of the same length.
RECURSIVE lex_greater(_, _)
lex_greater(ds, ms) ==
    /\ Len(ds) > 0
    /\ \/ ds[1] > ms[1]
       \/ ds[1] = ms[1] /\ lex_greater(Tail(ds), Tail(ms))

\* The checked_mul / checked_add of from_str_radix fail exactly when the
\* number is above u64::MAX.
Overflows(ds, radix) ==
    LET sig == strip_zeros(ds)
        max == U64MaxDigits(radix)
    IN  \/ Len(sig) > Len(max)
        \/ Len(sig) = Len(max) /\ lex_greater(sig, max)

RECURSIVE digits_value(_, _, _)
digits_value(ds, radix, acc) ==
    IF ds = <<>> THEN acc
    ELSE digits_value(Tail(ds), radix, acc * radix + ds[1])

\* u64::from_str_radix: an optional "+", then one digit or more.
from_str_radix(src, radix) ==
    LET body == IF Len(src) > 0 /\ Char(src, 1) = "+"
                THEN SubSeq(src, 2, Len(src))
                ELSE src
        ds   == [i \in 1..Len(body) |-> to_digit(Char(body, i), radix)]
    IN  IF Len(src) = 0 THEN Panic("Empty")
        ELSE IF Len(body) = 0 THEN Panic("InvalidDigit")
        ELSE IF \E i \in 1..Len(ds) : ds[i] = -1 THEN Panic("InvalidDigit")
        ELSE IF Overflows(ds, radix) THEN Panic("PosOverflow")
        ELSE Ok(digits_value(ds, radix, 0))

\* fn parse_hex(string: &str) -> u64
parse_hex(string) ==
    IF Len(string) < 2 THEN Panic("byte index 2 is out of bounds")
    ELSE IF SubSeq(string, 1, 2) # "0x" THEN Panic("Invalid hex prefix")
    ELSE LET r == from_str_radix(SubSeq(string, 3, Len(string)), 16)
         IN  IF r.ok THEN r ELSE Panic("Invalid hex number")

\* columns[3].parse::<u64>().unwrap()
parse_u64(string) ==
    LET r == from_str_radix(string, 10)
    IN  IF r.ok THEN r ELSE Panic("unwrap on Err(ParseIntError)")

(***************************************************************************)
(* The expected formats (lib.rs, lines 26-31).                             *)
(***************************************************************************)
HEAPCREATE_FORMAT ==
    <<"HeapCreate", "TimeStamp", "Process Name ( PID)", "ThreadID",
      "HeapHandle", "Flags", "ReserveSize", "CommitSize", "AllocatedSize">>
HEAPDESTROY_FORMAT ==
    <<"HeapDestroy", "TimeStamp", "Process Name ( PID)", "ThreadID",
      "HeapHandle">>
\* A faulty HEAPALLOC_FORMAT: the "Source" column is left out.
HEAPALLOC_FORMAT_NO_SOURCE ==
    <<"HeapAlloc", "TimeStamp", "Process Name ( PID)", "ThreadID",
      "HeapHandle", "Address", "Size">>
HEAPALLOC_FORMAT ==
    <<"HeapAlloc", "TimeStamp", "Process Name ( PID)", "ThreadID",
      "HeapHandle", "Address", "Size", "Source">>
HEAPFREE_FORMAT ==
    <<"HeapFree", "TimeStamp", "Process Name ( PID)", "ThreadID",
      "HeapHandle", "Address", "__Reserved", "Source">>
HEAPREALLOC_FORMAT ==
    <<"HeapRealloc", "TimeStamp", "Process Name ( PID)", "ThreadID",
      "HeapHandle", "NewAddress", "OldAddress", "NewSize", "OldSize",
      "Source">>
STACK_FORMAT ==
    <<"Stack", "TimeStamp", "ThreadID", "No.", "Address", "Image!Function">>

(***************************************************************************)
(* The lines an input is made of.  Any of them can stand anywhere in the   *)
(* input, before or after the "EndHeader" line.                            *)
(***************************************************************************)
\* The six declarations, padded as xperf pads them.
DeclHeapCreate ==
    "             HeapCreate,  TimeStamp,     Process Name ( PID),   ThreadID,         HeapHandle,      Flags, ReserveSize, CommitSize, AllocatedSize"
DeclHeapDestroy ==
    "            HeapDestroy,  TimeStamp,     Process Name ( PID),   ThreadID,         HeapHandle"
DeclHeapAlloc ==
    "              HeapAlloc,  TimeStamp,     Process Name ( PID),   ThreadID,         HeapHandle,            Address,       Size, Source"
DeclHeapFree ==
    "               HeapFree,  TimeStamp,     Process Name ( PID),   ThreadID,         HeapHandle,            Address, __Reserved, Source"
DeclHeapRealloc ==
    "HeapRealloc,TimeStamp,Process Name ( PID),ThreadID,HeapHandle,NewAddress,OldAddress,NewSize,OldSize,Source"
DeclStack ==
    "                  Stack,  TimeStamp,   ThreadID, No.,            Address, Image!Function\r"
EndHeaderLine == "EndHeader"
\* Declarations of another version of the format: the tag of a kind with
\* another column list.
DeclHeapAllocNoSource ==
    "HeapAlloc, TimeStamp, Process Name ( PID), ThreadID, HeapHandle, Address, Size"
DeclStackRenamed ==
    "Stack, TimeStamp, ThreadID, No., Address, Image!Function, Line"
\* "EndHeader" followed by a comma: two fields, the second one empty.
EndHeaderComma == "EndHeader,"

DeclLines ==
    {DeclHeapCreate, DeclHeapDestroy, DeclHeapAlloc, DeclHeapFree,
     DeclHeapRealloc, DeclStack}

\* Lines with no tag the parser knows.
BlankLine == ""
OtherRow == "T-Start, t0, proc (1), 100"

\* Well-formed rows.
StackRowA == "Stack, t0, 100, 1, 0x1000, moduleA!funcA"
StackRowB == "Stack, t0, 100, 2, 0x1004, moduleA!funcB"
\* Depth 1, written with a leading zero.
StackRowC == "Stack, t1, 101, 01, 0x3000, moduleB!funcC"
CreateRow == "HeapCreate, t0, proc (1), 100, 0x10, 0x2, 0x100000, 0x1000, 0x0"
DestroyRow == "HeapDestroy, t1, proc (1), 100, 0x11"
AllocRow == "HeapAlloc, t0, proc (1), 100, 0x10, 0x2000, 0x40, source"
FreeRow == "HeapFree, t2, proc (1), 100, 0x12, 0x2100, 0, source"
ReallocRow ==
    "HeapRealloc, t3, proc (1), 100, 0x13, 0x2200, 0x2300, 0x80, 0x20, source"
\* A heap handle with a sign after the prefix.
AllocRowPlus == "HeapAlloc, t4, proc (1), 100, 0x+14, 0x2400, 0x44, source"
\* A Stack row whose symbol holds a comma: seven fields.
StackRowExtra == "Stack, t2, 102, 3, 0x1008, moduleC!op<int, int>"
\* A Stack row whose address has a sign after the prefix.
StackRowPlus == "Stack, t2, 102, 4, 0x+100c, moduleC!funcD"

\* Malformed rows.
AllocRowNoPrefix == "HeapAlloc, t0, proc (1), 100, 0x10, 2000, 0x40, source"
FreeRowBadDigit == "HeapFree, t0, proc (1), 100, 0x10, 0x20g0, 0, source"
StackRowBadDepth == "Stack, t0, 100, one, 0x1000, moduleA!funcA"
StackRowBadAddress == "Stack, t0, 100, 1, 1000, moduleA!funcC"
FreeRowShort == "HeapFree, t0, proc (1), 100, 0x10"
StackRowShort == "Stack, t0, 100, 1, 0x1000"
StackRowBadBoth == "Stack, t0, 100, one, 1000, moduleA!funcC"
CreateRowShort == "HeapCreate, t0, proc (1), 100"
DestroyRowShort == "HeapDestroy"
AllocRowShort == "HeapAlloc, t0, proc (1), 100, 0x10, 0x2000"
ReallocRowShort ==
    "HeapRealloc, t3, proc (1), 100, 0x13, 0x2200, 0x2300, 0x80"

Lines ==
    DeclLines \cup
    {EndHeaderLine, DeclHeapAllocNoSource, DeclStackRenamed, EndHeaderComma,
     BlankLine, OtherRow,
     StackRowA, StackRowB, StackRowC, CreateRow, DestroyRow, AllocRow, FreeRow,
     ReallocRow, AllocRowPlus, StackRowExtra, StackRowPlus,
     AllocRowNoPrefix, FreeRowBadDigit, StackRowBadDepth, StackRowBadAddress,
     FreeRowShort, StackRowShort, StackRowBadBoth, CreateRowShort,
     DestroyRowShort, AllocRowShort, ReallocRowShort}

\* The columns of every line, as a table (f @@ g is computed when it is
\* defined, so that a line is split once and not at every step).
ColumnsOf == [l \in Lines |-> Columns(l)] @@ [l \in {} |-> <<>>]

(***************************************************************************)
(* The parser's state.                                                     *)
(***************************************************************************)
VARIABLES
    pc,                  \* "loop": reading lines; "done": returned Ok;
                         \* "panic": the call panicked
    line,                \* the line of the current iteration of the loop
    heapcreate_matches, heapdestroy_matches, heapalloc_matches,
    heapfree_matches, heaprealloc_matches, stack_matches,
    ready_to_parse,
    stacks, active_stack, activity,
    result,              \* what the call returned: [returned, value]
    panic_msg,           \* the message of the panic
    body,                \* history: the rows with a known tag read after
                         \* ready_to_parse was set, in input order
    hex_in, hex_out      \* SpecHex: the argument and the result of parse_hex

matches ==
    <<heapcreate_matches, heapdestroy_matches, heapalloc_matches,
      heapfree_matches, heaprealloc_matches, stack_matches>>
accumulators == <<stacks, active_stack, activity>>
hexvars == <<hex_in, hex_out>>
vars ==
    <<pc, line, matches, ready_to_parse, accumulators, result, panic_msg,
      body, hexvars>>

NotReturned == [returned |-> FALSE, value |-> <<>>]
NoHex == Panic("not called")

ParserInit ==
    /\ pc = "loop"
    /\ line = ""
    /\ heapcreate_matches = FALSE
    /\ heapdestroy_matches = FALSE
    /\ heapalloc_matches = FALSE
    /\ heapfree_matches = FALSE
    /\ heaprealloc_matches = FALSE
    /\ stack_matches = FALSE
    /\ ready_to_parse = FALSE
    /\ stacks = <<>>
    /\ active_stack = <<>>
    /\ activity = <<>>
    /\ result = NotReturned
    /\ panic_msg = ""
    /\ body = <<>>

Init ==
    /\ ParserInit
    /\ hex_in = ""
    /\ hex_out = NoHex

(***************************************************************************)
(* Rows.                                                                   *)
(***************************************************************************)
EventTags ==
    {"HeapCreate", "HeapDestroy", "HeapAlloc", "HeapFree", "HeapRealloc"}

\* A faulty row_kind: the last arm is the "Stack" arm.
row_kind_stack_default(columns) ==
    IF columns[1] \in EventTags THEN "event" ELSE "stack"

\* A faulty row_kind: "HeapFree" rows fall into the "Stack" arm.
row_kind_free_as_stack(columns) ==
    IF columns[1] \in EventTags \ {"HeapFree"} THEN "event"
    ELSE IF columns[1] \in {"Stack", "HeapFree"} THEN "stack"
    ELSE "other"

\* A faulty row_kind: a row equal to a column declaration is skipped.
row_kind_skip_declarations(columns) ==
    IF columns \in {HEAPCREATE_FORMAT, HEAPDESTROY_FORMAT, HEAPALLOC_FORMAT,
                    HEAPFREE_FORMAT, HEAPREALLOC_FORMAT, STACK_FORMAT}
    THEN "other"
    ELSE IF columns[1] \in EventTags THEN "event"
    ELSE IF columns[1] = "Stack" THEN "stack"
    ELSE "other"

\* match columns[0]: the arm a row is handled by.
row_kind(columns) ==
    IF columns[1] \in EventTags THEN "event"
    ELSE IF columns[1] = "Stack" THEN "stack"
    ELSE "other"

\* A faulty Column: the index is taken from 1.
Column_from_one(columns, i) ==
    IF i <= Len(columns) /\ i > 0 THEN Ok(columns[i])
    ELSE Panic("index out of bounds")

\* A faulty Column: a field that is missing reads as the empty string.
Column_or_empty(columns, i) ==
    IF i < Len(columns) THEN Ok(columns[i + 1]) ELSE Ok("")

\* columns[i], with Rust's index from 0: a panic when the row is too short.
Column(columns, i) ==
    IF i < Len(columns) THEN Ok(columns[i + 1])
    ELSE Panic("index out of bounds")

\* parse_hex(columns[i])
HexColumn(columns, i) ==
    LET c == Column(columns, i)
    IN  IF c.ok THEN parse_hex(c.value) ELSE c

\* parse_hex(columns[i]) for each i of idxs, in this order: the values, or
\* the first panic.
RECURSIVE HexColumns(_, _)
HexColumns(columns, idxs) ==
    IF idxs = <<>> THEN Ok(<<>>)
    ELSE LET h == HexColumn(columns, Head(idxs))
         IN  IF ~h.ok THEN h
             ELSE LET rest == HexColumns(columns, Tail(idxs))
                  IN  IF rest.ok THEN Ok(<<h.value>> \o rest.value) ELSE rest

\* The arms of the match for the five kinds of event: the HeapAction that
\* is pushed, or the panic.
parse_event(columns) ==
    LET tag == columns[1]
        idxs == CASE tag = "HeapCreate" -> <<4>>
                  [] tag = "HeapDestroy" -> <<4>>
                  [] tag = "HeapAlloc" -> <<4, 5, 6>>
                  [] tag = "HeapFree" -> <<4, 5>>
                  [] tag = "HeapRealloc" -> <<4, 5, 6, 7, 8>>
        h == HexColumns(columns, idxs)
        v == h.value
    IN  IF ~h.ok THEN h
        ELSE CASE tag = "HeapCreate" ->
                    Ok([kind |-> "Create", heap |-> v[1]])
               [] tag = "HeapDestroy" ->
                    Ok([kind |-> "Destroy", heap |-> v[1]])
               [] tag = "HeapAlloc" ->
                    Ok([kind |-> "Alloc", heap |-> v[1], address |-> v[2],
                        size |-> v[3]])
               [] tag = "HeapFree" ->
                    Ok([kind |-> "Free", heap |-> v[1], address |-> v[2]])
               [] tag = "HeapRealloc" ->
                    Ok([kind |-> "Realloc", heap |-> v[1],
                        new_address |-> v[2], old_address |-> v[3],
                        new_size |-> v[4], old_size |-> v[5]])

\* The head of the "Stack" arm: depth, _address and symbol, read in this
\* order.
parse_frame(columns) ==
    LET c3 == Column(columns, 3)
        depth == IF c3.ok THEN parse_u64(c3.value) ELSE c3
        address == HexColumn(columns, 4)
        symbol == Column(columns, 5)
    IN  IF ~depth.ok THEN depth
        ELSE IF ~address.ok THEN address
        ELSE IF ~symbol.ok THEN symbol
        ELSE Ok([depth |-> depth.value, symbol |-> symbol.value])

\* A faulty push_frame: the old stack is cleared and not saved.
push_frame_no_save(st, active, frame) ==
    LET cleared == IF frame.depth = 1 THEN <<>> ELSE active
    IN  [stacks |-> st, active_stack |-> Append(cleared, frame.symbol)]

\* A faulty push_frame: a frame of depth 1 saves the active stack and does
\* not clear it.
push_frame_no_reset(st, active, frame) ==
    LET saved == IF frame.depth = 1 /\ Len(active) > 0
                 THEN Append(st, active) ELSE st
    IN  [stacks |-> saved, active_stack |-> Append(active, frame.symbol)]

\* The rest of the "Stack" arm: the stacks and the active stack after a
\* frame.
push_frame(st, active, frame) ==
    LET saved == IF frame.depth = 1 /\ Len(active) > 0
                 THEN Append(st, active) ELSE st
        cleared == IF frame.depth = 1 THEN <<>> ELSE active
    IN  [stacks |-> saved, active_stack |-> Append(cleared, frame.symbol)]

\* A faulty zip: the stacks are joined from the last one.
zip_reversed(events, st) ==
    LET n == IF Len(events) < Len(st) THEN Len(events) ELSE Len(st)
    IN  [i \in 1..n |-> <<events[i], st[Len(st) + 1 - i]>>]

\* activity.iter().cloned().zip(stacks).collect()
zip(events, st) ==
    LET n == IF Len(events) < Len(st) THEN Len(events) ELSE Len(st)
    IN  [i \in 1..n |-> <<events[i], st[i]>>]

(***************************************************************************)
(* The steps of parse.                                                     *)
(***************************************************************************)
HeadersMsg == "Did not get expected headers"
AssertMsg == "assertion failed: activity.len() == stacks.len()"

DoPanic(msg) ==
    /\ pc' = "panic"
    /\ panic_msg' = msg

\* A faulty AllMatch: stack_matches is left out of the assertion.
AllMatchButStack ==
    /\ heapalloc_matches /\ heapfree_matches /\ heaprealloc_matches
    /\ heapcreate_matches /\ heapdestroy_matches

AllMatch ==
    /\ heapalloc_matches /\ heapfree_matches /\ heaprealloc_matches
    /\ heapcreate_matches /\ heapdestroy_matches /\ stack_matches

\* One iteration of the loop while ready_to_parse is false.
HeaderLine(l) ==
    LET columns == ColumnsOf[l] IN
    /\ pc = "loop"
    /\ ~ready_to_parse
    /\ line' = l
    /\ heapalloc_matches' =
           IF Len(columns) # 0 /\ columns = HEAPALLOC_FORMAT
           THEN TRUE ELSE heapalloc_matches
    /\ heapfree_matches' =
           IF Len(columns) # 0 /\ columns = HEAPFREE_FORMAT
           THEN TRUE ELSE heapfree_matches
    /\ heaprealloc_matches' =
           IF Len(columns) # 0 /\ columns = HEAPREALLOC_FORMAT
           THEN TRUE ELSE heaprealloc_matches
    /\ heapcreate_matches' =
           IF Len(columns) # 0 /\ columns = HEAPCREATE_FORMAT
           THEN TRUE ELSE heapcreate_matches
    /\ heapdestroy_matches' =
           IF Len(columns) # 0 /\ columns = HEAPDESTROY_FORMAT
           THEN TRUE ELSE heapdestroy_matches
    /\ stack_matches' =
           IF Len(columns) # 0 /\ columns = STACK_FORMAT
           THEN TRUE ELSE stack_matches
    /\ IF Len(columns) # 0 /\ columns = <<"EndHeader">>
       THEN IF AllMatch
            THEN /\ ready_to_parse' = TRUE
                 /\ UNCHANGED <<pc, panic_msg>>
            ELSE /\ DoPanic(HeadersMsg)
                 /\ UNCHANGED ready_to_parse
       ELSE UNCHANGED <<pc, panic_msg, ready_to_parse>>
    /\ UNCHANGED <<accumulators, result, body, hexvars>>

\* One iteration of the loop once ready_to_parse is true.
BodyLine(l) ==
    LET columns == ColumnsOf[l]
        kind == IF Len(columns) = 0 THEN "other" ELSE row_kind(columns)
    IN
    /\ pc = "loop"
    /\ ready_to_parse
    /\ line' = l
    /\ IF kind = "event"
       THEN /\ Len(body) < MaxRows
            /\ body' = Append(body, l)
            /\ LET e == parse_event(columns) IN
               IF e.ok
               THEN /\ activity' = Append(activity, e.value)
                    /\ UNCHANGED <<pc, panic_msg, stacks, active_stack>>
               ELSE /\ DoPanic(e.msg)
                    /\ UNCHANGED accumulators
       ELSE IF kind = "stack"
       THEN /\ Len(body) < MaxRows
            /\ body' = Append(body, l)
            /\ LET f == parse_frame(columns) IN
               IF f.ok
               THEN LET after == push_frame(stacks, active_stack, f.value) IN
                    /\ stacks' = after.stacks
                    /\ active_stack' = after.active_stack
                    /\ UNCHANGED <<pc, panic_msg, activity>>
               ELSE /\ DoPanic(f.msg)
                    /\ UNCHANGED accumulators
       ELSE UNCHANGED <<pc, panic_msg, accumulators, body>>
    /\ UNCHANGED <<matches, ready_to_parse, result, hexvars>>

\* A faulty EndOfInput: the lengths are not compared.
EndOfInputNoAssert ==
    LET final == IF Len(active_stack) > 0
                 THEN Append(stacks, active_stack) ELSE stacks
    IN
    /\ pc = "loop"
    /\ stacks' = final
    /\ active_stack' = IF Len(active_stack) > 0 THEN <<>> ELSE active_stack
    /\ pc' = "done"
    /\ result' = [returned |-> TRUE, value |-> zip(activity, final)]
    /\ UNCHANGED <<panic_msg, line, matches, ready_to_parse, activity, body,
                   hexvars>>

\* A faulty EndOfInput: the assertion lets more events than stacks pass.
EndOfInputAssertGe ==
    LET final == IF Len(active_stack) > 0
                 THEN Append(stacks, active_stack) ELSE stacks
    IN
    /\ pc = "loop"
    /\ stacks' = final
    /\ active_stack' = IF Len(active_stack) > 0 THEN <<>> ELSE active_stack
    /\ IF Len(activity) >= Len(final)
       THEN /\ pc' = "done"
            /\ result' = [returned |-> TRUE, value |-> zip(activity, final)]
            /\ UNCHANGED panic_msg
       ELSE /\ DoPanic(AssertMsg)
            /\ UNCHANGED result
    /\ UNCHANGED <<line, matches, ready_to_parse, activity, body, hexvars>>

\* A faulty EndOfInput: the active stack is saved even when it is empty.
EndOfInputAlwaysSaves ==
    LET final == Append(stacks, active_stack)
    IN
    /\ pc = "loop"
    /\ stacks' = final
    /\ active_stack' = <<>>
    /\ IF Len(activity) = Len(final)
       THEN /\ pc' = "done"
            /\ result' = [returned |-> TRUE, value |-> zip(activity, final)]
            /\ UNCHANGED panic_msg
       ELSE /\ DoPanic(AssertMsg)
            /\ UNCHANGED result
    /\ UNCHANGED <<line, matches, ready_to_parse, activity, body, hexvars>>

\* The end of the input: the active stack is saved, the lengths are
\* compared and the pairs are returned.
EndOfInput ==
    LET final == IF Len(active_stack) > 0
                 THEN Append(stacks, active_stack) ELSE stacks
    IN
    /\ pc = "loop"
    /\ stacks' = final
    /\ active_stack' = IF Len(active_stack) > 0 THEN <<>> ELSE active_stack
    /\ IF Len(activity) = Len(final)
       THEN /\ pc' = "done"
            /\ result' = [returned |-> TRUE, value |-> zip(activity, final)]
            /\ UNCHANGED panic_msg
       ELSE /\ DoPanic(AssertMsg)
            /\ UNCHANGED result
    /\ UNCHANGED <<line, matches, ready_to_parse, activity, body, hexvars>>

Next ==
    \/ \E l \in Lines : HeaderLine(l)
    \/ \E l \in Lines : BodyLine(l)
    \/ EndOfInput

Spec == Init /\ [][Next]_vars

(***************************************************************************)
(* parse_hex on its own: the argument is any string of at most MaxHexLen   *)
(* characters of HexAlphabet.                                              *)
(***************************************************************************)
HexAlphabet == {"0", "1", "a", "F", "g", "x", "X", "+", "-", " "}

RECURSIVE StringsUpTo(_)
StringsUpTo(n) ==
    IF n = 0 THEN {""}
    ELSE LET shorter == StringsUpTo(n - 1)
         IN  shorter \cup {s \o c : s \in shorter, c \in HexAlphabet}

HexInit ==
    /\ ParserInit
    /\ hex_in \in StringsUpTo(MaxHexLen)
    /\ hex_out = NoHex

CallParseHex ==
    /\ hex_out = NoHex
    /\ hex_out' = parse_hex(hex_in)
    /\ UNCHANGED <<pc, line, matches, ready_to_parse, accumulators, result,
                   panic_msg, body, hex_in>>

SpecHex == HexInit /\ [][CallParseHex]_vars

(***************************************************************************)
(* What the properties speak of.                                           *)
(***************************************************************************)
IsEventRow(l) == ColumnsOf[l][1] \in EventTags
IsStackRow(l) == ColumnsOf[l][1] = "Stack"

\* The event rows, and the Stack rows, read in the body so far.
EventRows == SelectSeq(body, IsEventRow)
StackRows == SelectSeq(body, IsStackRow)

\* The frame of a well-formed Stack row.
FrameOf(l) == parse_frame(ColumnsOf[l]).value

\* The stacks that the first n rows of b open, in the order in which they
\* are opened: a Stack row of depth 1 opens a stack, and so does a first
\* Stack row of any depth; any other Stack row goes on with the last one.
RECURSIVE StackGroups(_, _)
StackGroups(b, n) ==
    IF n = 0 THEN <<>>
    ELSE LET g == StackGroups(b, n - 1)
         IN  IF ~IsStackRow(b[n]) THEN g
             ELSE IF FrameOf(b[n]).depth = 1 \/ g = <<>>
             THEN Append(g, <<FrameOf(b[n]).symbol>>)
             ELSE [g EXCEPT ![Len(g)] = Append(@, FrameOf(b[n]).symbol)]

\* Each of the six kinds is marked seen.
SixSeen == \A i \in 1..6 : matches[i]

\* The step that ends the input, and the steps that read a line.
EofStep ==
    /\ pc = "loop"
    /\ pc' = "done" \/ (pc' = "panic" /\ panic_msg' = AssertMsg)
HeaderStep == pc = "loop" /\ ~ready_to_parse /\ ~EofStep
BodyStep == pc = "loop" /\ ready_to_parse /\ ~EofStep

(***************************************************************************)
(* The claims.                                                             *)
(***************************************************************************)

\* C1: when parse returns, the output has one pair per event row of the
\* body; pair i holds the event of the i-th event row and the i-th completed
\* stack, which is the i-th stack opened by the Stack rows: nothing is
\* reordered, dropped or duplicated.
C1_OrderPreserved ==
    pc = "done" =>
        /\ Len(result.value) = Len(EventRows)
        /\ stacks = StackGroups(body, Len(body))
        /\ \A i \in 1..Len(result.value) :
               /\ result.value[i][1] = parse_event(ColumnsOf[EventRows[i]]).value
               /\ result.value[i][2] = stacks[i]

\* Two pairs that differ in their events and in their stacks are returned.
C1_Witness ==
    /\ pc = "done"
    /\ Len(result.value) = 2
    /\ result.value[1][1] # result.value[2][1]
    /\ result.value[1][2] # result.value[2][2]

\* C2: parse returns only when the event list and the completed-stacks
\* list, after the active stack is saved, are of the same length, which is
\* the length of the output; when the lengths differ the call panics on its
\* assertion and returns nothing.
C2_EqualCounts ==
    /\ pc = "done" =>
           /\ result.returned
           /\ Len(activity) = Len(stacks)
           /\ Len(result.value) = Len(activity)
           /\ Len(activity) = Len(EventRows)
           /\ Len(stacks) = Len(StackGroups(body, Len(body)))
    /\ (pc = "panic" /\ panic_msg = AssertMsg) =>
           /\ ~result.returned
           /\ Len(activity) # Len(stacks)
    /\ (pc = "loop" /\ ENABLED EndOfInput) =>
           LET final == IF Len(active_stack) > 0
                        THEN Len(stacks) + 1 ELSE Len(stacks)
           IN  Len(activity) # final => ~ENABLED (EndOfInput /\ pc' = "done")

\* The input ends with events and stacks, and not as many of each.
C2_Witness ==
    /\ pc = "panic"
    /\ panic_msg = AssertMsg
    /\ Len(activity) > 0
    /\ Len(stacks) > 0

\* C3: in the header, a line whose only field is "EndHeader" makes the call
\* panic at once when one of the six kinds is not marked seen, and starts
\* the parsing of the body when the six are; a kind is marked seen by a line
\* whose trimmed fields are its expected column list and by no other line,
\* so that a line with its tag and other columns marks nothing.
C3_SchemaGate ==
    [][HeaderStep =>
         LET columns == ColumnsOf[line'] IN
         /\ (columns = <<"EndHeader">> /\ ~SixSeen) =>
                /\ pc' = "panic" /\ panic_msg' = HeadersMsg
                /\ ~ready_to_parse'
         /\ (columns = <<"EndHeader">> /\ SixSeen) =>
                /\ pc' = "loop" /\ ready_to_parse'
         /\ columns # <<"EndHeader">> => pc' = "loop" /\ ~ready_to_parse'
         /\ heapcreate_matches' =
                (heapcreate_matches \/ columns = HEAPCREATE_FORMAT)
         /\ heapdestroy_matches' =
                (heapdestroy_matches \/ columns = HEAPDESTROY_FORMAT)
         /\ heapalloc_matches' =
                (heapalloc_matches \/ columns = HEAPALLOC_FORMAT)
         /\ heapfree_matches' =
                (heapfree_matches \/ columns = HEAPFREE_FORMAT)
         /\ heaprealloc_matches' =
                (heaprealloc_matches \/ columns = HEAPREALLOC_FORMAT)
         /\ stack_matches' = (stack_matches \/ columns = STACK_FORMAT)
         /\ line' \in {DeclHeapAllocNoSource, DeclStackRenamed} =>
                matches' = matches
    ]_vars

\* "EndHeader" is refused after five of the six declarations and a Stack
\* declaration of another format.
C3_Witness ==
    /\ pc = "panic"
    /\ panic_msg = HeadersMsg
    /\ line = EndHeaderLine
    /\ heapcreate_matches /\ heapdestroy_matches /\ heapalloc_matches
    /\ heapfree_matches /\ heaprealloc_matches /\ ~stack_matches

(***************************************************************************)
(* Fields as the specification describes them.                             *)
(***************************************************************************)
HexDigitValue ==
    [c \in {"0"} |-> 0] @@ [c \in {"1"} |-> 1] @@ [c \in {"2"} |-> 2] @@
    [c \in {"3"} |-> 3] @@ [c \in {"4"} |-> 4] @@ [c \in {"5"} |-> 5] @@
    [c \in {"6"} |-> 6] @@ [c \in {"7"} |-> 7] @@ [c \in {"8"} |-> 8] @@
    [c \in {"9"} |-> 9] @@ [c \in {"a", "A"} |-> 10] @@
    [c \in {"b", "B"} |-> 11] @@ [c \in {"c", "C"} |-> 12] @@
    [c \in {"d", "D"} |-> 13] @@ [c \in {"e", "E"} |-> 14] @@
    [c \in {"f", "F"} |-> 15]
IsHexDigit(c) == c \in DOMAIN HexDigitValue
IsDecDigit(c) == c \in {"0", "1", "2", "3", "4", "5", "6", "7", "8", "9"}

\* The field has the literal prefix "0x".
HasHexPrefix(s) == Len(s) >= 2 /\ SubSeq(s, 1, 2) = "0x"
\* A character after the prefix is not a hexadecimal digit.
HasNonHexDigit(s) == \E i \in 3..Len(s) : ~IsHexDigit(Char(s, i))
\* A hexadecimal field that the specification calls malformed.
MalformedHex(s) == ~HasHexPrefix(s) \/ HasNonHexDigit(s)
\* "0x" and one hexadecimal digit or more.
PlainHex(s) == HasHexPrefix(s) /\ Len(s) >= 3 /\ ~HasNonHexDigit(s)

\* The number that the first n characters after the prefix of a plain
\* hexadecimal field denote in base 16.
RECURSIVE HexValue(_, _)
HexValue(s, n) ==
    IF n = 0 THEN 0
    ELSE 16 * HexValue(s, n - 1) + HexDigitValue[Char(s, n + 2)]
HexNumber(s) == HexValue(s, Len(s) - 2)

\* A decimal field with a character that is no digit, or with none.
NonNumeric(s) == Len(s) = 0 \/ \E i \in 1..Len(s) : ~IsDecDigit(Char(s, i))

\* field[i] of a row, counted from 0 as the specification counts.
Field(l, i) == ColumnsOf[l][i + 1]
NFields(l) == Len(ColumnsOf[l])
Tag(l) == ColumnsOf[l][1]

\* The positions of the hexadecimal fields that a row of a kind is read at.
HexPositions(tag) ==
    CASE tag \in {"HeapCreate", "HeapDestroy"} -> {4}
      [] tag = "HeapAlloc" -> {4, 5, 6}
      [] tag = "HeapFree" -> {4, 5}
      [] tag = "HeapRealloc" -> {4, 5, 6, 7, 8}
      [] tag = "Stack" -> {4}
      [] OTHER -> {}

\* The row has a malformed hexadecimal field at a position that is read.
HasMalformedHex(l) ==
    \E i \in HexPositions(Tag(l)) : i < NFields(l) /\ MalformedHex(Field(l, i))
\* The Stack row has a depth that is not a number.
HasNonNumericDepth(l) ==
    Tag(l) = "Stack" /\ 3 < NFields(l) /\ NonNumeric(Field(l, 3))
\* Every field that the event row is read at is there and is plain
\* hexadecimal.
PlainEventRow(l) ==
    /\ Tag(l) \in EventTags
    /\ \A i \in HexPositions(Tag(l)) : i < NFields(l) /\ PlainHex(Field(l, i))

\* The event that the specification gives for a plain event row.
EventOf(l) ==
    LET f(i) == HexNumber(Field(l, i))
    IN  CASE Tag(l) = "HeapCreate" -> [kind |-> "Create", heap |-> f(4)]
          [] Tag(l) = "HeapDestroy" -> [kind |-> "Destroy", heap |-> f(4)]
          [] Tag(l) = "HeapAlloc" ->
               [kind |-> "Alloc", heap |-> f(4), address |-> f(5),
                size |-> f(6)]
          [] Tag(l) = "HeapFree" ->
               [kind |-> "Free", heap |-> f(4), address |-> f(5)]
          [] Tag(l) = "HeapRealloc" ->
               [kind |-> "Realloc", heap |-> f(4), new_address |-> f(5),
                old_address |-> f(6), new_size |-> f(7), old_size |-> f(8)]

\* C4: no error lets the call return: a row of the body with a malformed
\* hexadecimal field where one is read, a Stack row with a depth that is
\* not a number, a refused header or unequal counts make the call panic,
\* and a panic returns nothing; what is returned is returned at the end of
\* the input only.
C4_ErrorsAbort ==
    /\ result.returned => pc = "done"
    /\ pc = "panic" => result = NotReturned
    /\ pc = "loop" => result = NotReturned
    /\ (\E i \in 1..Len(body) :
            HasMalformedHex(body[i]) \/ HasNonNumericDepth(body[i]))
           => ~result.returned

\* C5 (parse_hex alone): a field without the literal prefix "0x", or with a
\* character after the prefix that is not a hexadecimal digit, makes
\* parse_hex panic; any other field with a digit is decoded in base 16, so
\* that "0x1a" gives 26 and "0x0" gives 0.
C5_ParseHex ==
    hex_out # NoHex =>
        /\ MalformedHex(hex_in) => ~hex_out.ok
        /\ PlainHex(hex_in) => hex_out = Ok(HexNumber(hex_in))
        /\ hex_in = "0x1a" => hex_out = Ok(26)
        /\ hex_in = "0x0" => hex_out = Ok(0)

\* C6: a row of the body with the tag of an event and plain hexadecimal
\* fields adds one event, of the kind of its tag, whose fields are the
\* numbers at the fixed positions of the kind; the rows "Stack ... 1 ...
\* moduleA!funcA", "Stack ... 2 ... moduleA!funcB", "HeapAlloc ... 0x10,
\* 0x2000, 0x40" give the one pair of Alloc{0x10, 0x2000, 0x40} and the
\* stack of the two symbols.
C6_EventFields ==
    [][/\ (BodyStep /\ body' # body /\ PlainEventRow(line')) =>
              /\ pc' = "loop"
              /\ activity' = Append(activity, EventOf(line'))
       /\ (EofStep /\ body = <<StackRowA, StackRowB, AllocRow>>) =>
              /\ pc' = "done"
              /\ result'.value =
                     << << [kind |-> "Alloc", heap |-> 16, address |-> 8192,
                            size |-> 64],
                           <<"moduleA!funcA", "moduleA!funcB">> >> >>
    ]_vars

\* The scenario of the specification has returned its pair.
C6_Witness ==
    /\ pc = "done"
    /\ body = <<StackRowA, StackRowB, AllocRow>>
    /\ Len(result.value) = 1

\* C7: after event rows and no Stack row the call does not return: at the
\* end of the input the counts differ and the call panics without a pair.
C7_EventsWithoutStacks ==
    (ready_to_parse /\ Len(EventRows) >= 1 /\ StackRows = <<>>) =>
        /\ pc # "done"
        /\ result = NotReturned
        /\ pc = "loop" =>
               /\ ENABLED (EndOfInput /\ pc' = "panic" /\ panic_msg' = AssertMsg)
               /\ ~ENABLED (EndOfInput /\ pc' = "done")

\* One Alloc row and the end of the input: the assertion fails.
C7_Witness ==
    /\ pc = "panic"
    /\ panic_msg = AssertMsg
    /\ body = <<AllocRow>>
    /\ result = NotReturned

\* C8: in the body a line whose first field is none of the six tags, a
\* blank line too, is passed over: no panic, and the events, the active
\* stack and the completed stacks stay as they are; a line with one of the
\* six tags is never passed over: it adds an event or a frame, or the call
\* panics.
C8_OtherRowsSkipped ==
    [][BodyStep =>
         LET known == Tag(line') \in
                 {"HeapCreate", "HeapDestroy", "HeapAlloc", "HeapFree",
                  "HeapRealloc", "Stack"}
         IN  /\ ~known =>
                    /\ pc' = "loop"
                    /\ UNCHANGED <<accumulators, panic_msg, result, body,
                                   matches, ready_to_parse>>
             /\ known =>
                    \/ pc' = "panic"
                    \/ accumulators' # accumulators
    ]_vars

\* A blank line was read with events and frames at hand.
C8_Witness ==
    /\ pc = "loop"
    /\ ready_to_parse
    /\ line = BlankLine
    /\ Len(activity) > 0
    /\ Len(active_stack) > 0
    /\ Len(stacks) > 0

\* C9: a Stack row of depth 1 appends the active stack, when it is not
\* empty, to the completed stacks and starts the active stack anew with its
\* symbol; a Stack row of any other depth, the first Stack row too, seals
\* and clears nothing and appends its symbol to the active stack.
C9_StackBoundary ==
    [][(BodyStep /\ Tag(line') = "Stack" /\ pc' = "loop") =>
         LET depth == parse_u64(Field(line', 3)).value
             symbol == Field(line', 5)
         IN  IF depth = 1
             THEN /\ stacks' = IF active_stack # <<>>
                               THEN Append(stacks, active_stack) ELSE stacks
                  /\ active_stack' = <<symbol>>
             ELSE /\ stacks' = stacks
                  /\ active_stack' = Append(active_stack, symbol)
    ]_vars

\* A first Stack row of depth 2 opened a stack, and a row of depth 1
\* sealed it.
C9_Witness ==
    /\ pc = "loop"
    /\ stacks = << <<"moduleA!funcB">> >>
    /\ active_stack = <<"moduleA!funcA">>

\* C10: an input in which an event row follows no Stack row since the
\* event row before it (or since the start of the body) does not return.
C10_ZeroStackEventFails ==
    (\E i \in 1..Len(body) :
         /\ IsEventRow(body[i])
         /\ i = 1 \/ IsEventRow(body[i - 1]))
        => ~result.returned

\* C11: an event row that is accepted in the body appends exactly one event
\* at the end of the event list, and no event row, accepted or not, changes
\* the completed stacks or the active stack: an event row between two Stack
\* rows leaves the open stack as it is.
C11_EventRowsLeaveStacks ==
    [][(BodyStep /\ Tag(line') \in EventTags) =>
         /\ stacks' = stacks
         /\ active_stack' = active_stack
         /\ pc' = "loop" =>
               /\ Len(activity') = Len(activity) + 1
               /\ SubSeq(activity', 1, Len(activity)) = activity
               /\ body' = Append(body, line')
    ]_vars

\* An event row was read between two Stack rows of one stack, with a
\* completed stack at hand: the open stack holds both frames.
C11_Witness ==
    /\ pc = "loop"
    /\ body = <<StackRowC, StackRowA, FreeRow, StackRowB>>
    /\ stacks = <<<<"moduleB!funcC">>>>
    /\ active_stack = <<"moduleA!funcA", "moduleA!funcB">>
    /\ Len(activity) = 1

\* C12: at the end of the input a non-empty active stack is appended to the
\* completed stacks as their last entry and an empty one is not; in every
\* reachable state each entry of the completed stacks holds at least one
\* frame.
C12_Finalization ==
    [][/\ \A i \in 1..Len(stacks) : Len(stacks[i]) >= 1
       /\ \A i \in 1..Len(stacks') : Len(stacks'[i]) >= 1
       /\ EofStep =>
             stacks' = IF active_stack # <<>>
                       THEN Append(stacks, active_stack) ELSE stacks
    ]_vars

\* The input ended on a Stack row: the open stack became the last of two
\* completed stacks.
C12_Witness ==
    /\ pc = "done"
    /\ body = <<StackRowC, CreateRow, AllocRow, StackRowA>>
    /\ line = StackRowA
    /\ stacks = <<<<"moduleB!funcC">>, <<"moduleA!funcA">>>>

\* C13: before the sentinel is accepted, a line that is neither one of the
\* six column lists nor the sentinel is ignored: it changes no flag and
\* cannot fail; no line read before the sentinel adds an event or a frame,
\* so the event list, the active stack and the completed stacks are empty
\* in every state with ready_to_parse false.
C13_HeaderLinesIgnored ==
    [][/\ ~ready_to_parse =>
             activity = <<>> /\ active_stack = <<>> /\ stacks = <<>>
       /\ ~ready_to_parse' =>
             activity' = <<>> /\ active_stack' = <<>> /\ stacks' = <<>>
       /\ (HeaderStep /\ line' \notin DeclLines \cup {EndHeaderLine}) =>
             /\ matches' = matches
             /\ ready_to_parse' = ready_to_parse
             /\ pc' = "loop"
             /\ UNCHANGED <<panic_msg, result, body>>
    ]_vars

\* A Stack row with a depth that is no number was read before the
\* sentinel, after the declaration of the Stack columns: nothing failed.
C13_Witness ==
    /\ pc = "loop"
    /\ ~ready_to_parse
    /\ stack_matches
    /\ line = StackRowBadDepth
    /\ accumulators = <<<<>>, <<>>, <<>>>>

\* C14: the parser only moves forward. ready_to_parse becomes true only on
\* the sentinel line with the six declarations seen; once true it stays
\* true and no flag changes; a later "EndHeader" line is skipped as a row
\* of no known tag, and a repeated column declaration is handled as a data
\* row by its first field (its column names are then parsed as values, and
\* parse fails on them).
C14_ForwardOnly ==
    [][/\ ready_to_parse => (ready_to_parse' /\ matches' = matches)
       /\ (~ready_to_parse /\ ready_to_parse') =>
             (ColumnsOf[line'] = <<"EndHeader">> /\ SixSeen /\ pc' = "loop")
       /\ (BodyStep /\ line' = EndHeaderLine) =>
             UNCHANGED <<pc, panic_msg, accumulators, body, result>>
       /\ (BodyStep /\ line' \in DeclLines) =>
             /\ body' = Append(body, line')
             /\ pc' = "panic"
             /\ panic_msg' = IF line' = DeclStack
                             THEN "unwrap on Err(ParseIntError)"
                             ELSE "Invalid hex prefix"
             /\ UNCHANGED accumulators
    ]_vars

\* The declaration of the HeapAlloc columns was read again after a Stack
\* row of the body and was parsed as a HeapAlloc row.
C14_Witness ==
    /\ pc = "panic"
    /\ ready_to_parse
    /\ line = DeclHeapAlloc
    /\ body = <<StackRowA, DeclHeapAlloc>>
    /\ panic_msg = "Invalid hex prefix"
    /\ active_stack = <<"moduleA!funcA">>

\* C15 as stated: an input in which no "EndHeader" line was accepted (the
\* empty input and inputs with declarations missing included) never fails:
\* no row is dispatched, both lists stay empty and parse returns an empty
\* sequence.
C15_NoAcceptedSentinelNeverFails ==
    ~ready_to_parse =>
        /\ pc # "panic"
        /\ activity = <<>> /\ stacks = <<>> /\ body = <<>>
        /\ pc = "done" => result = [returned |-> TRUE, value |-> <<>>]

\* C15 as amended: an input with no "EndHeader" sentinel line at all never
\* fails: no row is dispatched, both lists stay empty, the count check
\* passes with 0 = 0 and parse returns an empty sequence. The only failure
\* with ready_to_parse false is the one of an "EndHeader" line read with a
\* declaration missing.
C15_NoSentinelNeverFails ==
    [][/\ (HeaderStep /\ line' # EndHeaderLine) =>
             /\ pc' = "loop"
             /\ ~ready_to_parse'
             /\ activity' = <<>> /\ stacks' = <<>> /\ active_stack' = <<>>
             /\ body' = <<>>
       /\ (pc = "loop" /\ ~ready_to_parse /\ EofStep) =>
             /\ pc' = "done"
             /\ Len(activity') = 0 /\ Len(stacks') = 0
             /\ result' = [returned |-> TRUE, value |-> <<>>]
       /\ (~ready_to_parse' /\ pc' = "panic") =>
             /\ line' = EndHeaderLine
             /\ panic_msg' = HeadersMsg
             /\ ~SixSeen
    ]_vars

\* The input ended with no "EndHeader" line read: two declarations are
\* missing, the last line was a HeapAlloc row, and parse returned an empty
\* sequence.
C15_Witness ==
    /\ pc = "done"
    /\ ~ready_to_parse
    /\ line = AllocRow
    /\ matches = <<TRUE, TRUE, TRUE, TRUE, FALSE, FALSE>>
    /\ result = [returned |-> TRUE, value |-> <<>>]

\* The frames of the completed stacks, one stack after the other.
RECURSIVE Concat(_)
Concat(ss) == IF ss = <<>> THEN <<>> ELSE Head(ss) \o Concat(Tail(ss))

\* The rows of body are all processed unless the last one made parse fail.
AllProcessed == pc # "panic" \/ panic_msg = AssertMsg

\* The symbols of the Stack rows read, and the Stack rows of depth 1.
StackSymbols == [i \in 1..Len(StackRows) |-> Field(StackRows[i], 5)]
DepthOf(l) == parse_u64(Field(l, 3)).value
IsDepthOne(l) == IsStackRow(l) /\ DepthOf(l) = 1

\* C16: frames are conserved. While the body is parsed, the completed
\* stacks one after the other, followed by the active stack, are the
\* symbols (field 5) of the Stack rows processed so far, in the order of
\* the input; after the end of the input the number of completed stacks is
\* the number of Stack rows of depth 1, plus one when the first Stack row
\* of the body has another depth.
C16_FrameConservation ==
    (ready_to_parse /\ AllProcessed) =>
        /\ Concat(stacks) \o active_stack = StackSymbols
        /\ pc # "loop" =>
              /\ active_stack = <<>>
              /\ Len(stacks) =
                    Len(SelectSeq(body, IsDepthOne))
                    + (IF StackRows # <<>> /\ DepthOf(StackRows[1]) # 1
                       THEN 1 ELSE 0)

\* The first Stack row of the body had depth 2 and one row of depth 1
\* followed: parse ended with two completed stacks.
C16_Witness ==
    /\ pc = "done"
    /\ body = <<StackRowB, CreateRow, StackRowA, AllocRow>>
    /\ stacks = <<<<"moduleA!funcB">>, <<"moduleA!funcA">>>>

\* C17: a Stack row of the body is checked beyond its depth and symbol: the
\* depth (field 3) is parsed first, as a decimal number, and then the
\* address (field 4) must be a "0x" followed by hexadecimal digits, though
\* its value is dropped. A Stack row with a valid depth and a malformed
\* address makes parse fail, and its symbol is not appended to the active
\* stack; with a depth that is no number parse fails on the depth.
C17_StackAddressValidated ==
    [][/\ (BodyStep /\ Tag(line') = "Stack" /\ NFields(line') >= 5
             /\ ~NonNumeric(Field(line', 3))
             /\ MalformedHex(Field(line', 4))) =>
             /\ pc' = "panic"
             /\ panic_msg' \in {"Invalid hex prefix", "Invalid hex number"}
             /\ UNCHANGED accumulators
       /\ (BodyStep /\ Tag(line') = "Stack" /\ NFields(line') >= 5
             /\ NonNumeric(Field(line', 3))) =>
             /\ pc' = "panic"
             /\ panic_msg' = "unwrap on Err(ParseIntError)"
             /\ UNCHANGED accumulators
    ]_vars

\* The number of fields a row of the tag needs: one more than the highest
\* index read.
RequiredFields(tag) ==
    CASE tag \in {"HeapCreate", "HeapDestroy"} -> 5
      [] tag = "HeapAlloc" -> 7
      [] tag \in {"HeapFree", "Stack"} -> 6
      [] tag = "HeapRealloc" -> 9

\* A Stack row with the fields read all there, a depth in decimal digits
\* and a plain hexadecimal address.
PlainStackRow(l) ==
    /\ Tag(l) = "Stack"
    /\ NFields(l) >= 6
    /\ ~NonNumeric(Field(l, 3))
    /\ PlainHex(Field(l, 4))

\* C18: a row of the body with a known tag and fewer fields than its kind
\* reads (HeapCreate and HeapDestroy 5, HeapAlloc 7, HeapFree 6,
\* HeapRealloc 9, Stack 6) makes parse fail with nothing appended; a row
\* with the fields read and any number of fields after them is accepted,
\* and the fields after them change nothing.
C18_RowArity ==
    [][/\ (BodyStep /\ Tag(line') \in EventTags \cup {"Stack"}
             /\ NFields(line') < RequiredFields(Tag(line'))) =>
             /\ pc' = "panic"
             /\ UNCHANGED accumulators
       /\ (BodyStep /\ PlainEventRow(line')
             /\ NFields(line') >= RequiredFields(Tag(line'))) =>
             /\ pc' = "loop"
             /\ activity' = Append(activity, EventOf(line'))
             /\ UNCHANGED <<stacks, active_stack>>
       /\ (BodyStep /\ PlainStackRow(line')) =>
             /\ pc' = "loop"
             /\ active_stack' # <<>>
             /\ active_stack'[Len(active_stack')] = Field(line', 5)
             /\ Len(Concat(stacks') \o active_stack')
                  = Len(Concat(stacks) \o active_stack) + 1
             /\ UNCHANGED activity
    ]_vars

\* A Stack row of seven fields and a HeapCreate row of nine fields were
\* accepted, and a Stack row of five fields made parse fail.
C18_Witness ==
    /\ pc = "panic"
    /\ panic_msg = "index out of bounds"
    /\ body = <<StackRowExtra, CreateRow, StackRowShort>>
    /\ active_stack = <<"moduleC!op<int">>
    /\ stacks = <<>>
    /\ Len(activity) = 1

=============================================================================
